---- MODULE Spec2Model ----
(***************************************************************************)
(* VecMin<T, M>: a Vec<T> whose length is meant never to fall below the    *)
(* const generic M (src/src/vec.rs), with the range helpers range_len      *)
(* (src/src/vec.rs) and slice_range (src/src/lib.rs).                      *)
(*                                                                         *)
(* Every method of VecMin is an operator over the inner Vec, computed as   *)
(* the code computes it, and an action that applies it to the container.   *)
(* The iterator that drain and splice return borrows the container until   *)
(* the caller drops it or leaks it (mem::forget), so those two methods are *)
(* a call followed by the iterator's own steps.                            *)
(***************************************************************************)
EXTENDS Integers, Sequences, FiniteSets

\* ------------------------------------------------------------------ bounds
\* Largest const generic M explored.
MaxM == 2
\* Longest inner Vec explored; growing operations are cut off here.
MaxLen == 3
\* usize::MAX of the modelled machine word (arithmetic is modulo UsizeMax + 1).
UsizeMax == 7

\* Element values; 0 is T::default().
Val == {0, 1}
\* isize::MAX, the largest capacity an allocation may have.
IsizeMax == UsizeMax \div 2

Max(a, b) == IF a > b THEN a ELSE b

\* Every Vec<T> of at most n elements.
VecsUpTo(n) == UNION {[1..k -> Val] : k \in 0..n}
Vecs == VecsUpTo(MaxLen)
\* Replacement / source sequences handed to splice, append, extend.
Items == VecsUpTo(2)

\* usize arguments: every index up to one past the longest Vec, and usize::MAX.
Usizes == (0..(MaxLen + 1)) \cup {UsizeMax}

\* A RangeBounds<usize>: a start Bound and an end Bound.
Bounds == {[kind |-> k, n |-> n] : k \in {"Included", "Excluded"}, n \in Usizes}
            \cup {[kind |-> "Unbounded", n |-> 0]}
Ranges == {[start |-> s, end |-> e] : s \in Bounds, e \in Bounds}

Included(n) == [kind |-> "Included", n |-> n]
Excluded(n) == [kind |-> "Excluded", n |-> n]
Unbounded == [kind |-> "Unbounded", n |-> 0]

\* ----------------------------------------------------- usize arithmetic
saturating_add(a, b) == IF a + b > UsizeMax THEN UsizeMax ELSE a + b
saturating_sub(a, b) == IF a < b THEN 0 ELSE a - b
\* a + b and a - b as the machine computes them when overflow is not checked.
wrapping(a) == a % (UsizeMax + 1)
\* TRUE when a value computed over the integers does not fit a usize.
overflows(a) == a < 0 \/ a > UsizeMax

\* --------------------------------------------------------------- state
VARIABLES
    M,                \* the const generic M of the container's type
    overflow_checks,  \* the build: TRUE panics on arithmetic overflow, FALSE wraps
    alive,            \* TRUE while a VecMin exists (constructed, not consumed)
    vec,              \* self.vec, the inner Vec<T>
    iter,             \* the outstanding vec::Drain / vec::Splice, if any
    last,             \* the call that has just returned: its name, its outcome
                      \* and the value handed back, until the caller takes it
    probe             \* a bare call of a free function: its arguments and result

vars == <<M, overflow_checks, alive, vec, iter, last, probe>>

NoIter == [kind |-> "none", rest |-> <<>>, repl |-> <<>>, tail |-> <<>>]
NoCall == [op |-> "none", res |-> "Ok", ret |-> <<>>]
NoProbe == [fn |-> "none"]

\* Outcomes of a call.  "Ok"/"Err" are the two arms of a Result (for calls
\* that return no Result, "Ok" is a plain return); "Panic" is an unwinding
\* abort that leaves self as it was at the panic.  "UB" is a return after
\* undefined behaviour, with a value the program's text does not determine.
Ok(v, r) == [res |-> "Ok", vec |-> v, ret |-> r, iter |-> NoIter]
Err(v, r) == [res |-> "Err", vec |-> v, ret |-> r, iter |-> NoIter]
Panic(v) == [res |-> "Panic", vec |-> v, ret |-> <<>>, iter |-> NoIter]

\* ------------------------------------------------------ range helpers
\* range_len with an inclusive end taken as if it were exclusive.
range_len_inclusive_end_not_advanced(range, max) ==
    LET start == CASE range.start.kind = "Included" -> range.start.n
                   [] range.start.kind = "Excluded" -> saturating_add(range.start.n, 1)
                   [] OTHER -> 0
        end == CASE range.end.kind = "Included" -> range.end.n
                 [] range.end.kind = "Excluded" -> range.end.n
                 [] OTHER -> max
    IN  saturating_sub(end, start)

\* range_len with an inclusive end advanced by a wrapping + 1.
range_len_wrapping_add(range, max) ==
    LET start == CASE range.start.kind = "Included" -> range.start.n
                   [] range.start.kind = "Excluded" -> saturating_add(range.start.n, 1)
                   [] OTHER -> 0
        end == CASE range.end.kind = "Included" -> wrapping(range.end.n + 1)
                 [] range.end.kind = "Excluded" -> range.end.n
                 [] OTHER -> max
    IN  saturating_sub(end, start)

range_len(range, max) ==
    LET start == CASE range.start.kind = "Included" -> range.start.n
                   [] range.start.kind = "Excluded" -> saturating_add(range.start.n, 1)
                   [] OTHER -> 0
        end == CASE range.end.kind = "Included" -> saturating_add(range.end.n, 1)
                 [] range.end.kind = "Excluded" -> range.end.n
                 [] OTHER -> max
    IN  saturating_sub(end, start)

\* slice_range(range, ..len): the validated Range, or a panic.
slice_range(range, len) ==
    LET startOverflow == range.start.kind = "Excluded" /\ range.start.n = UsizeMax
        endOverflow == range.end.kind = "Included" /\ range.end.n = UsizeMax
        start == CASE range.start.kind = "Included" -> range.start.n
                   [] range.start.kind = "Excluded" -> range.start.n + 1
                   [] OTHER -> 0
        end == CASE range.end.kind = "Included" -> range.end.n + 1
                 [] range.end.kind = "Excluded" -> range.end.n
                 [] OTHER -> len
    IN  IF startOverflow \/ endOverflow THEN [panic |-> TRUE, start |-> 0, end |-> 0]
        ELSE IF ~(start <= end) THEN [panic |-> TRUE, start |-> 0, end |-> 0]
        ELSE IF ~(end <= len) THEN [panic |-> TRUE, start |-> 0, end |-> 0]
        ELSE [panic |-> FALSE, start |-> start, end |-> end]


\* ------------------------------------------------ the inner Vec (std)
\* Vec::drain(range): validates the range (with the standard slice-range
\* validator, of which slice_range is the crate's copy), shortens the Vec to
\* the range's start and hands the drained elements and the tail to the Drain.
vec_drain(v, range) ==
    LET r == slice_range(range, Len(v))
    IN  IF r.panic THEN Panic(v)
        ELSE [res |-> "Ok", vec |-> SubSeq(v, 1, r.start), ret |-> <<>>,
              iter |-> [kind |-> "drain",
                        rest |-> SubSeq(v, r.start + 1, r.end),
                        repl |-> <<>>,
                        tail |-> SubSeq(v, r.end + 1, Len(v))]]

\* Vec::splice(range, replace_with): a Drain of the range that also carries
\* the replacement, which is written into the gap when the Splice is dropped.
vec_splice(v, range, replace_with) ==
    LET d == vec_drain(v, range)
    IN  IF d.res = "Panic" THEN d
        ELSE [d EXCEPT !.iter = [d.iter EXCEPT !.kind = "splice", !.repl = replace_with]]

\* Drop of the iterator: Drain moves the tail back behind the kept prefix;
\* Splice first writes the replacement into the gap.
iter_drop(v, it) ==
    IF it.kind = "splice" THEN (v \o it.repl) \o it.tail ELSE v \o it.tail

\* The Vec a caller sees after mem::forget of the iterator: the length set
\* when the iterator was created stays, the tail is never moved back.
iter_forget(v, it) == v

\* Vec::truncate(len): a len above the current length changes nothing.
vec_truncate(v, len) == IF len > Len(v) THEN v ELSE SubSeq(v, 1, len)

\* The k-th value (k = 1, 2, ...) of the FnMut generator that starts at g.
Gen(g, k) == (g + k - 1) % Cardinality(Val)

\* Vec::resize(new_len, value) and Vec::resize_with(new_len, f).
vec_resize(v, new_len, value) ==
    IF new_len > Len(v) THEN v \o [k \in 1..(new_len - Len(v)) |-> value]
    ELSE vec_truncate(v, new_len)

vec_resize_with(v, new_len, g) ==
    IF new_len > Len(v) THEN v \o [k \in 1..(new_len - Len(v)) |-> Gen(g, k)]
    ELSE vec_truncate(v, new_len)

\* ------------------------------------------------------------ accessors
min_len == M

\* min_slice reads M elements through the Vec's buffer pointer, whatever the
\* Vec's length.  With M elements initialized the result is the first M
\* elements; with fewer, the read goes past the length and is undefined
\* behaviour: the outcome is "UB" and the elements past the length are
\* whatever the memory holds (beyond).
min_slice(v, beyond) ==
    IF min_len <= Len(v) THEN Ok(v, SubSeq(v, 1, min_len))
    ELSE [res |-> "UB", vec |-> v,
          ret |-> [k \in 1..min_len |-> IF k <= Len(v) THEN v[k] ELSE beyond[k]],
          iter |-> NoIter]

\* ------------------------------------- constructors and conversions
new_unchecked(v) == Ok(v, <<>>)

\* new that also rejects an input of exactly M elements.
new_rejecting_exactly_min(v) ==
    IF Len(v) > M THEN new_unchecked(v) ELSE Err(<<>>, v)

new(v) ==
    IF Len(v) >= M THEN new_unchecked(v) ELSE Err(<<>>, v)

\* Vec::extend / to_vec / into_vec: the items one by one, in order.
RECURSIVE extend_each(_, _)
extend_each(v, items) ==
    IF items = <<>> THEN v ELSE extend_each(Append(v, Head(items)), Tail(items))

\* Vec::with_capacity(cap.max(hint)) panics above isize::MAX; the size hint
\* of the sources used here is their exact length.
_collect(items, cap) ==
    LET hint == Len(items)
    IN  IF Max(cap, hint) > IsizeMax THEN Panic(<<>>)
        ELSE new(extend_each(<<>>, items))

collect(items) == _collect(items, M)

collect_with_capacity(items, extra) ==
    IF overflows(M + extra) /\ overflow_checks THEN Panic(<<>>)
    ELSE _collect(items, wrapping(M + extra))

\* Default as a derive on the struct would give it: the empty Vec.
default_derived == Ok(<<>>, <<>>)

default == Ok([k \in 1..M |-> 0], <<>>)

\* TryFrom<Vec<T>>, <Box<[T]>>, <&[T]>, <&mut [T]>, <Cow<[T]>>, <[T; N]>:
\* each turns its source into a Vec (into_vec / to_vec / into_owned / into)
\* and goes through new.
TryFromKinds == {"Vec", "Box", "Slice", "MutSlice", "Cow", "Array"}
try_from(kind, src) ==
    IF kind = "Vec" THEN new(src) ELSE new(extend_each(<<>>, src))

into_inner(v) == Ok(<<>>, v)
into_boxed_slice(v) == Ok(<<>>, v)
leak(v) == Ok(<<>>, v)

\* ------------------------------------------------------------ capacity
reserve(v, additional) ==
    IF Len(v) + additional > IsizeMax THEN Panic(v) ELSE Ok(v, <<>>)
try_reserve(v, additional) ==
    IF Len(v) + additional > IsizeMax THEN Err(v, <<>>) ELSE Ok(v, <<>>)
shrink_to(v, min_capacity) == Ok(v, <<>>)

\* ------------------------------------------------------ increasing len
push(v, item) == Ok(Append(v, item), <<>>)

insert(v, index, element) ==
    IF index > Len(v) THEN Panic(v)
    ELSE Ok((SubSeq(v, 1, index) \o <<element>>) \o SubSeq(v, index + 1, Len(v)), <<>>)

\* append that copies other's elements, as extend_from_slice does, and
\* leaves other as it was.
append_cloning(v, other) == Ok(v \o other, other)

\* Vec::append moves every element of other to the end of self and sets
\* other's length to 0; ret is other as the caller finds it afterwards.
append(v, other) == Ok(v \o other, SubSeq(other, 1, 0))

extend_from_slice(v, other) == Ok(extend_each(v, other), <<>>)

extend_from_within(v, range) ==
    LET r == slice_range(range, Len(v))
    IN  IF r.panic THEN Panic(v) ELSE Ok(v \o SubSeq(v, r.start + 1, r.end), <<>>)

extend(v, items) == Ok(extend_each(v, items), <<>>)

\* ------------------------------------------------------ len decreasing
pop(v) ==
    IF Len(v) > M
    THEN IF v = <<>> THEN Ok(v, <<>>)
         ELSE Ok(SubSeq(v, 1, Len(v) - 1), <<v[Len(v)]>>)
    ELSE Err(v, <<>>)

pop_to_min(v) ==
    IF Len(v) > M
    THEN IF v = <<>> THEN Ok(v, <<>>)
         ELSE Ok(SubSeq(v, 1, Len(v) - 1), <<v[Len(v)]>>)
    ELSE Ok(v, <<>>)

remove(v, index) ==
    IF Len(v) > M
    THEN IF index >= Len(v) THEN Panic(v)
         ELSE Ok(SubSeq(v, 1, index) \o SubSeq(v, index + 2, Len(v)), <<v[index + 1]>>)
    ELSE Err(v, <<>>)

swap_remove(v, index) ==
    IF Len(v) > M
    THEN IF index >= Len(v) THEN Panic(v)
         ELSE Ok(SubSeq([v EXCEPT ![index + 1] = v[Len(v)]], 1, Len(v) - 1),
                 <<v[index + 1]>>)
    ELSE Err(v, <<>>)

\* truncate that shortens the Vec before it reports the error.
truncate_before_check(v, len) ==
    IF len >= M THEN Ok(vec_truncate(v, len), <<>>) ELSE Err(vec_truncate(v, len), <<>>)

\* truncate that tests the current length, as pop does, not the requested one.
truncate_testing_current_length(v, len) ==
    IF Len(v) > M THEN Ok(vec_truncate(v, len), <<>>) ELSE Err(v, <<>>)

truncate(v, len) ==
    IF len >= M THEN Ok(vec_truncate(v, len), <<>>) ELSE Err(v, <<>>)

truncate_or_min(v, len) == Ok(vec_truncate(v, Max(len, M)), <<>>)

truncate_to_min(v) == Ok(vec_truncate(v, M), <<>>)

resize(v, new_len, value) ==
    IF new_len >= M THEN Ok(vec_resize(v, new_len, value), <<>>) ELSE Err(v, <<>>)

resize_or_min(v, new_len, value) == Ok(vec_resize(v, Max(new_len, M), value), <<>>)

\* resize_with that calls the generator once and fills with that one result.
resize_with_calling_generator_once(v, new_len, generator) ==
    IF new_len >= M THEN Ok(vec_resize(v, new_len, Gen(generator, 1)), <<>>) ELSE Err(v, <<>>)

resize_with(v, new_len, generator) ==
    IF new_len >= M THEN Ok(vec_resize_with(v, new_len, generator), <<>>)
    ELSE Err(v, <<>>)

resize_or_min_with(v, new_len, generator) ==
    Ok(vec_resize_with(v, Max(new_len, M), generator), <<>>)

drain(v, range) ==
    LET drain_len == range_len(range, Len(v))
        diff == Len(v) - drain_len
        final_len == wrapping(diff)
    IN  IF overflows(diff) /\ overflow_checks THEN Panic(v)
        ELSE IF final_len >= M THEN vec_drain(v, range)
        ELSE Err(v, <<>>)

\* splice whose prospective length leaves out the inserted count.
splice_ignoring_gain(v, range, replace_with) ==
    LET loss == range_len(range, Len(v))
        diff == Len(v) - loss
        final_len == wrapping(diff)
    IN  IF overflows(diff) /\ overflow_checks THEN Panic(v)
        ELSE IF final_len >= M THEN vec_splice(v, range, replace_with)
        ELSE Err(v, <<>>)

splice(v, range, replace_with) ==
    LET gain == Len(replace_with)
        loss == range_len(range, Len(v))
        sum == Len(v) + gain
        diff == wrapping(sum) - loss
        final_len == wrapping(diff)
    IN  IF (overflows(sum) \/ overflows(diff)) /\ overflow_checks THEN Panic(v)
        ELSE IF final_len >= M THEN vec_splice(v, range, replace_with)
        ELSE Err(v, <<>>)


\* -------------------------------------------------------------- actions
\* The container can be observed: it exists and no iterator borrows it.
Idle == alive /\ iter.kind = "none"
\* Between calls: the caller has taken the result of the previous call.
\* Every Idle state has a Return successor with the same container, so what
\* holds of the container at every Ready state holds of every container.
Ready == Idle /\ last = NoCall
\* No container exists (none constructed yet, or the last one was consumed).
NoContainer == ~alive /\ last = NoCall

Called(op, o) == [op |-> op, res |-> o.res, ret |-> o.ret]

\* A constructor call: on Ok the container exists and holds o.vec.
Construct(op, o) ==
    /\ NoContainer
    /\ alive' = (o.res = "Ok")
    /\ vec' = o.vec
    /\ iter' = NoIter
    /\ last' = Called(op, o)
    /\ UNCHANGED <<M, overflow_checks, probe>>

\* A call that consumes self and hands the inner Vec to the caller.
Consume(op, o) ==
    /\ Ready
    /\ alive' = FALSE
    /\ vec' = o.vec
    /\ iter' = NoIter
    /\ last' = Called(op, o)
    /\ UNCHANGED <<M, overflow_checks, probe>>

\* A &mut self call.
Mutate(op, o) ==
    /\ Ready
    /\ Len(o.vec) + Len(o.iter.repl) + Len(o.iter.tail) <= MaxLen
    /\ vec' = o.vec
    /\ iter' = o.iter
    /\ last' = Called(op, o)
    /\ UNCHANGED <<M, overflow_checks, alive, probe>>

New ==
    /\ NoContainer
    /\ \E v \in Vecs : Construct("new", new(v))

NewUnchecked ==
    /\ NoContainer
    /\ \E v \in Vecs : Len(v) >= M /\ Construct("new_unchecked", new_unchecked(v))

Collect ==
    /\ NoContainer
    /\ \E v \in Vecs : Construct("collect", collect(v))

CollectWithCapacity ==
    /\ NoContainer
    /\ \E v \in Vecs, extra \in {0, 1, UsizeMax} : Construct("collect_with_capacity", collect_with_capacity(v, extra))

Default ==
    /\ NoContainer
    /\ Construct("default", default)

MinSlice ==
    /\ Ready
    /\ \E beyond \in [1..MaxM -> Val] : Mutate("min_slice", min_slice(vec, beyond))

TryFrom ==
    /\ NoContainer
    /\ \E k \in TryFromKinds, v \in Vecs : Construct("try_from", try_from(k, v))

IntoInner ==
    /\ Ready
    /\ Consume("into_inner", into_inner(vec))

IntoBoxedSlice ==
    /\ Ready
    /\ Consume("into_boxed_slice", into_boxed_slice(vec))

Leak ==
    /\ Ready
    /\ Consume("leak", leak(vec))

Reserve ==
    /\ Ready
    /\ \E n \in Usizes : Mutate("reserve", reserve(vec, n))

ReserveExact ==
    /\ Ready
    /\ \E n \in Usizes : Mutate("reserve_exact", reserve(vec, n))

TryReserve ==
    /\ Ready
    /\ \E n \in Usizes : Mutate("try_reserve", try_reserve(vec, n))

TryReserveExact ==
    /\ Ready
    /\ \E n \in Usizes : Mutate("try_reserve_exact", try_reserve(vec, n))

ShrinkToFit ==
    /\ Ready
    /\ Mutate("shrink_to_fit", shrink_to(vec, 0))

ShrinkTo ==
    /\ Ready
    /\ \E n \in Usizes : Mutate("shrink_to", shrink_to(vec, n))

Push ==
    /\ Ready
    /\ \E x \in Val : Mutate("push", push(vec, x))

Insert ==
    /\ Ready
    /\ \E i \in Usizes, x \in Val : Mutate("insert", insert(vec, i, x))

AppendVec ==
    /\ Ready
    /\ \E other \in Items : Mutate("append", append(vec, other))

ExtendFromSlice ==
    /\ Ready
    /\ \E other \in Items : Mutate("extend_from_slice", extend_from_slice(vec, other))

ExtendFromWithin ==
    /\ Ready
    /\ \E r \in Ranges : Mutate("extend_from_within", extend_from_within(vec, r))

Extend ==
    /\ Ready
    /\ \E items \in Items : Mutate("extend", extend(vec, items))

Pop ==
    /\ Ready
    /\ Mutate("pop", pop(vec))

PopToMin ==
    /\ Ready
    /\ Mutate("pop_to_min", pop_to_min(vec))

Remove ==
    /\ Ready
    /\ \E i \in Usizes : Mutate("remove", remove(vec, i))

SwapRemove ==
    /\ Ready
    /\ \E i \in Usizes : Mutate("swap_remove", swap_remove(vec, i))

Truncate ==
    /\ Ready
    /\ \E n \in Usizes : Mutate("truncate", truncate(vec, n))

TruncateOrMin ==
    /\ Ready
    /\ \E n \in Usizes : Mutate("truncate_or_min", truncate_or_min(vec, n))

TruncateToMin ==
    /\ Ready
    /\ Mutate("truncate_to_min", truncate_to_min(vec))

Resize ==
    /\ Ready
    /\ \E n \in 0..MaxLen, x \in Val : Mutate("resize", resize(vec, n, x))

ResizeOrMin ==
    /\ Ready
    /\ \E n \in 0..MaxLen, x \in Val : Mutate("resize_or_min", resize_or_min(vec, n, x))

ResizeWith ==
    /\ Ready
    /\ \E n \in 0..MaxLen, g \in Val : Mutate("resize_with", resize_with(vec, n, g))

ResizeOrMinWith ==
    /\ Ready
    /\ \E n \in 0..MaxLen, g \in Val : Mutate("resize_or_min_with", resize_or_min_with(vec, n, g))

Drain ==
    /\ Ready
    /\ \E r \in Ranges : Mutate("drain", drain(vec, r))

Splice ==
    /\ Ready
    /\ \E r \in Ranges, items \in Items : Mutate("splice", splice(vec, r, items))

\* The caller's steps on the vec::Drain / vec::Splice it was handed.
Borrowed == alive /\ iter.kind # "none"
Held == Borrowed /\ last = NoCall

IterNext ==
    /\ Held
    /\ iter.rest # <<>>
    /\ iter' = [iter EXCEPT !.rest = Tail(iter.rest)]
    /\ last' = [op |-> "next", res |-> "Ok", ret |-> <<Head(iter.rest)>>]
    /\ UNCHANGED <<M, overflow_checks, alive, vec, probe>>

IterDrop ==
    /\ Held
    /\ vec' = iter_drop(vec, iter)
    /\ iter' = NoIter
    /\ last' = [op |-> "drop", res |-> "Ok", ret |-> <<>>]
    /\ UNCHANGED <<M, overflow_checks, alive, probe>>

IterForget ==
    /\ Held
    /\ vec' = iter_forget(vec, iter)
    /\ iter' = NoIter
    /\ last' = [op |-> "forget", res |-> "Ok", ret |-> <<>>]
    /\ UNCHANGED <<M, overflow_checks, alive, probe>>

\* The caller takes the value the call returned.
Return ==
    /\ last # NoCall
    /\ last' = NoCall
    /\ UNCHANGED <<M, overflow_checks, alive, vec, iter, probe>>

Init ==
    /\ M \in 0..MaxM
    /\ overflow_checks \in BOOLEAN
    /\ alive = FALSE
    /\ vec = <<>>
    /\ iter = NoIter
    /\ last = NoCall
    /\ probe = NoProbe

Next ==
    \/ New \/ NewUnchecked \/ Collect \/ CollectWithCapacity \/ Default \/ TryFrom
    \/ MinSlice \/ IntoInner \/ IntoBoxedSlice \/ Leak
    \/ Reserve \/ ReserveExact \/ TryReserve \/ TryReserveExact \/ ShrinkToFit \/ ShrinkTo
    \/ Push \/ Insert \/ AppendVec \/ ExtendFromSlice \/ ExtendFromWithin \/ Extend
    \/ Pop \/ PopToMin \/ Remove \/ SwapRemove
    \/ Truncate \/ TruncateOrMin \/ TruncateToMin
    \/ Resize \/ ResizeOrMin \/ ResizeWith \/ ResizeOrMinWith
    \/ Drain \/ Splice
    \/ IterNext \/ IterDrop \/ IterForget
    \/ Return

Spec == Init /\ [][Next]_vars

\* The same program when every Drain / Splice is dropped, never leaked.
NextDropped ==
    \/ New \/ NewUnchecked \/ Collect \/ CollectWithCapacity \/ Default \/ TryFrom
    \/ MinSlice \/ IntoInner \/ IntoBoxedSlice \/ Leak
    \/ Reserve \/ ReserveExact \/ TryReserve \/ TryReserveExact \/ ShrinkToFit \/ ShrinkTo
    \/ Push \/ Insert \/ AppendVec \/ ExtendFromSlice \/ ExtendFromWithin \/ Extend
    \/ Pop \/ PopToMin \/ Remove \/ SwapRemove
    \/ Truncate \/ TruncateOrMin \/ TruncateToMin
    \/ Resize \/ ResizeOrMin \/ ResizeWith \/ ResizeOrMinWith
    \/ Drain \/ Splice
    \/ IterNext \/ IterDrop
    \/ Return

SpecDropped == Init /\ [][NextDropped]_vars

\* The two free functions on ranges, called on their own: the arguments are
\* drawn first, then one of the functions is applied to them.
RangeLen ==
    /\ probe.fn = "args"
    /\ probe' = [fn |-> "range_len", range |-> probe.range, max |-> probe.max,
                 out |-> range_len(probe.range, probe.max)]
    /\ UNCHANGED <<M, overflow_checks, alive, vec, iter, last>>

SliceRange ==
    /\ probe.fn = "args"
    /\ probe' = [fn |-> "slice_range", range |-> probe.range, max |-> probe.max,
                 out |-> slice_range(probe.range, probe.max)]
    /\ UNCHANGED <<M, overflow_checks, alive, vec, iter, last>>

InitRanges ==
    /\ M = 0
    /\ overflow_checks = FALSE
    /\ alive = FALSE
    /\ vec = <<>>
    /\ iter = NoIter
    /\ last = NoCall
    /\ probe \in {[fn |-> "args", range |-> r, max |-> m] : r \in Ranges, m \in Usizes}

NextRanges == RangeLen \/ SliceRange

SpecRanges == InitRanges /\ [][NextRanges]_vars

\* ---------------------------------------------------------------- claims
\* The bounds of a range as the integers they denote (no saturation):
\* the first index of the range and the index one past its last.
StartOf(range) ==
    CASE range.start.kind = "Included" -> range.start.n
      [] range.start.kind = "Excluded" -> range.start.n + 1
      [] OTHER -> 0
EndOf(range, len) ==
    CASE range.end.kind = "Included" -> range.end.n + 1
      [] range.end.kind = "Excluded" -> range.end.n
      [] OTHER -> len
WellFormed(range, len) == StartOf(range) <= EndOf(range, len) /\ EndOf(range, len) <= len
\* start past end, end past the length, or a bound that overflows a usize
\* when made exclusive.
Malformed(range, len) ==
    \/ StartOf(range) > EndOf(range, len)
    \/ EndOf(range, len) > len
    \/ StartOf(range) > UsizeMax
    \/ EndOf(range, len) > UsizeMax

\* C1: after every public operation, succeeded or failed, of any sequence
\* of operations on a constructed container, the container's length is at
\* least M whenever the container can be observed.
C1_LengthAtLeastM == Idle => Len(vec) >= M

\* C2: in every state in which the container can be observed again after a
\* successful drain or splice (its iterator consumed and dropped, dropped at
\* once, or abandoned without being dropped), its length is at least M.
C2_NoObservableStateBelowM ==
    (Idle /\ last.op \in {"drop", "forget"}) => Len(vec) >= M

\* C3: a checked operation that returns the recoverable error leaves the
\* element sequence and the length as they were before the call, and hands
\* out no iterator.
Rejected(o) == o.res = "Err" => (o.vec = vec /\ o.iter = NoIter)
C3_RejectionLeavesContainerUnchanged ==
    Ready =>
        /\ LET o == pop(vec) IN Rejected(o)
        /\ \A i \in Usizes :
            /\ LET o == remove(vec, i) IN Rejected(o)
            /\ LET o == swap_remove(vec, i) IN Rejected(o)
            /\ LET o == truncate(vec, i) IN Rejected(o)
            /\ \A x \in Val :
                /\ LET o == resize(vec, i, x) IN Rejected(o)
                /\ LET o == resize_with(vec, i, x) IN Rejected(o)
        /\ \A r \in Ranges :
            /\ LET o == drain(vec, r) IN Rejected(o)
            /\ \A items \in Items : LET o == splice(vec, r, items) IN Rejected(o)
C3_Witness ==
    Idle /\ M = 2 /\ Len(vec) = 2 /\ last.op = "drain" /\ last.res = "Err"

\* C4: wherever a checked operation fails, its clamped variant applied to
\* the same state with the same argument leaves length exactly M.
C4_ClampedVariantReachesM ==
    Ready =>
        /\ pop(vec).res = "Err" => Len(pop_to_min(vec).vec) = M
        /\ \A n \in Usizes :
            /\ truncate(vec, n).res = "Err" => Len(truncate_or_min(vec, n).vec) = M
            /\ \A x \in Val :
                /\ resize(vec, n, x).res = "Err" => Len(resize_or_min(vec, n, x).vec) = M
                /\ resize_with(vec, n, x).res = "Err"
                     => Len(resize_or_min_with(vec, n, x).vec) = M

\* C5: new, collect and every TryFrom conversion succeed exactly when the
\* input has at least M elements; on success the container holds the input
\* elements in order, on failure the input comes back element for element.
ChecksInput(o, input) ==
    /\ o.res = "Ok" <=> Len(input) >= M
    /\ o.res = "Ok" => o.vec = input
    /\ o.res # "Ok" => o.res = "Err" /\ o.ret = input
C5_CheckedConstruction ==
    /\ NoContainer => \A input \in Vecs :
        /\ LET o == new(input) IN ChecksInput(o, input)
        /\ LET o == collect(input) IN ChecksInput(o, input)
        /\ \A k \in TryFromKinds : LET o == try_from(k, input) IN ChecksInput(o, input)
    /\ last.op \in {"new", "collect", "try_from"} =>
        /\ last.res = "Ok" => alive /\ Len(vec) >= M
        /\ last.res = "Err" => ~alive /\ Len(last.ret) < M
C5_Witness ==
    M = 1 /\ last.op = "new" /\ last.res = "Err" /\ last.ret = <<>> /\ ~alive

\* C6: for any container reachable by any sequence of operations,
\* into_inner followed by new succeeds and yields an equal container.
C6_RoundTrip ==
    Ready => LET back == new(into_inner(vec).ret)
            IN  back.res = "Ok" /\ back.vec = vec

\* C7: pop fails exactly when the length equals M; otherwise it returns the
\* former last element and leaves the former elements without the last.
C7_Pop ==
    Ready => LET o == pop(vec)
            IN  /\ o.res = "Err" <=> Len(vec) = M
                /\ o.res # "Err" =>
                    /\ o.res = "Ok"
                    /\ o.ret = <<vec[Len(vec)]>>
                    /\ o.vec = SubSeq(vec, 1, Len(vec) - 1)

\* C8: for a range with start <= end <= length, drain succeeds exactly when
\* length minus the number of indices in the range is at least M; it then
\* yields the elements at those indices in order, and the container becomes
\* the elements before the range followed by those after it.
C8_Drain ==
    Ready => \A r \in Ranges : WellFormed(r, Len(vec)) =>
        LET o == drain(vec, r)
            s == StartOf(r)
            e == EndOf(r, Len(vec))
        IN  /\ o.res = "Ok" <=> Len(vec) - (e - s) >= M
            /\ o.res # "Ok" => o.res = "Err"
            /\ o.res = "Ok" =>
                /\ o.iter.rest = [k \in 1..(e - s) |-> vec[s + k]]
                /\ iter_drop(o.vec, o.iter)
                     = [k \in 1..(Len(vec) - (e - s)) |->
                          IF k <= s THEN vec[k] ELSE vec[k + (e - s)]]
C8_Witness ==
    /\ M = 2 /\ last.op = "drain" /\ last.res = "Ok"
    /\ iter.kind = "drain" /\ Len(iter.rest) = 1 /\ Len(vec) = 1 /\ Len(iter.tail) = 1

C10_MalformedRangeAborts ==
    Ready => \A r \in Ranges : Malformed(r, Len(vec)) =>
        /\ drain(vec, r).res = "Panic"
        /\ \A items \in Items : splice(vec, r, items).res = "Panic"

\* C11: remove(i) and swap_remove(i) with i below the length fail exactly when
\* the length equals M; otherwise each returns the element at index i and
\* shortens the container by one, remove keeping the order of the others and
\* swap_remove putting the former last element at index i.
C11_RemoveAndSwapRemove ==
    Ready =>
        \A i \in 0..(Len(vec) - 1) :
            LET o == remove(vec, i)
                p == swap_remove(vec, i)
                n == Len(vec)
            IN  /\ (o.res = "Err") <=> (n = M)
                /\ (p.res = "Err") <=> (n = M)
                /\ o.res # "Err" =>
                      /\ o.res = "Ok" /\ o.ret = <<vec[i + 1]>>
                      /\ o.vec = [k \in 1..(n - 1) |-> IF k <= i THEN vec[k] ELSE vec[k + 1]]
                /\ p.res # "Err" =>
                      /\ p.res = "Ok" /\ p.ret = <<vec[i + 1]>>
                      /\ p.vec = [k \in 1..(n - 1) |-> IF k = i + 1 THEN vec[n] ELSE vec[k]]

\* pop_to_min applied k times in a row.
RECURSIVE pop_to_min_times(_, _)
pop_to_min_times(v, k) == IF k = 0 THEN v ELSE pop_to_min_times(pop_to_min(v).vec, k - 1)

\* C12: pop_to_min removes and returns the last element exactly when the
\* length exceeds M, and is then identical to a successful pop; when the
\* length equals M it returns nothing and leaves the container unchanged; so
\* pop_to_min repeated from any state reaches length M and then stays there.
C12_PopToMin ==
    Ready =>
        LET o == pop_to_min(vec)
            n == Len(vec)
        IN  /\ (o.ret # <<>>) <=> (n > M)
            /\ n > M => /\ o = pop(vec)
                        /\ o.res = "Ok" /\ o.ret = <<vec[n]>> /\ o.vec = SubSeq(vec, 1, n - 1)
            /\ n = M => o.res = "Ok" /\ o.ret = <<>> /\ o.vec = vec
            /\ \E k \in 0..n :
                  /\ Len(pop_to_min_times(vec, k)) = M
                  /\ pop_to_min_times(vec, k + 1) = pop_to_min_times(vec, k)

Min(a, b) == IF a <= b THEN a ELSE b
\* The first n elements of v (all of v when n exceeds its length).
FirstN(v, n) == [k \in 1..Min(n, Len(v)) |-> v[k]]

\* C13: truncate(n) fails exactly when n < M, whatever the current length;
\* otherwise it succeeds and the container is exactly its first
\* min(n, old length) elements (a request above the length changes nothing).
C13_Truncate ==
    Ready =>
        \A n \in Usizes :
            LET o == truncate(vec, n)
            IN  /\ (o.res = "Err") <=> (n < M)
                /\ o.res # "Err" => o.res = "Ok" /\ o.vec = FirstN(vec, n)
                /\ (n >= M /\ n > Len(vec)) => o.vec = vec
C13_Witness ==
    Idle /\ M = 1 /\ last.op = "truncate" /\ last.res = "Ok" /\ vec = <<1, 0>>

\* C14: resize(n, v) and resize_with(n, g) fail exactly when n < M; otherwise
\* the resulting length is exactly n, the first min(n, old length) elements
\* are unchanged, and every added element is the fill value (respectively
\* the generator's successive results).
C14_Resize ==
    Ready =>
        \A n \in Usizes, x \in Val :
            LET o == resize(vec, n, x)
                p == resize_with(vec, n, x)
                old == Len(vec)
            IN  /\ (o.res = "Err") <=> (n < M)
                /\ (p.res = "Err") <=> (n < M)
                /\ o.res # "Err" =>
                      /\ o.res = "Ok" /\ Len(o.vec) = n
                      /\ \A k \in 1..Min(n, old) : o.vec[k] = vec[k]
                      /\ \A k \in (old + 1)..n : o.vec[k] = x
                /\ p.res # "Err" =>
                      /\ p.res = "Ok" /\ Len(p.vec) = n
                      /\ \A k \in 1..Min(n, old) : p.vec[k] = vec[k]
                      /\ \A k \in (old + 1)..n : p.vec[k] = Gen(x, k - old)
C14_Witness ==
    Idle /\ M = 1 /\ last.op = "resize_with" /\ last.res = "Ok" /\ vec = <<0, 0, 1>>

\* C15: the clamped variants never fail and produce the same container as the
\* checked operation called with the clamped argument: truncate_or_min(n) as
\* truncate(max(n, M)), resize_or_min(n, v) as resize(max(n, M), v),
\* resize_or_min_with(n, g) as resize_with(max(n, M), g); and truncate_to_min
\* always leaves length exactly M with the first M elements unchanged.
C15_ClampedVariants ==
    Ready =>
        /\ \A n \in Usizes :
            /\ truncate_or_min(vec, n).res = "Ok"
            /\ truncate_or_min(vec, n) = truncate(vec, Max(n, M))
            /\ \A x \in Val :
                /\ resize_or_min(vec, n, x).res = "Ok"
                /\ resize_or_min(vec, n, x) = resize(vec, Max(n, M), x)
                /\ resize_or_min_with(vec, n, x).res = "Ok"
                /\ resize_or_min_with(vec, n, x) = resize_with(vec, Max(n, M), x)
        /\ LET o == truncate_to_min(vec)
           IN  /\ o.res = "Ok"
               /\ Len(o.vec) = M
               /\ \A k \in 1..M : o.vec[k] = vec[k]

\* C16: at every reachable state min_slice returns exactly M elements, equal
\* to the first M elements of the full slice view, and the read never
\* touches an index at or beyond the current length.
C16_MinSlice ==
    Ready =>
        \A beyond \in [1..MaxM -> Val] :
            LET o == min_slice(vec, beyond)
            IN  /\ min_len <= Len(vec)
                /\ o.res = "Ok"
                /\ Len(o.ret) = M
                /\ \A k \in 1..M : o.ret[k] = vec[k]

\* C17: Default construction yields a container of length exactly M whose
\* every element is the element type's default value (0); with M = 0 it is
\* empty.
C17_Default ==
    /\ NoContainer =>
          /\ default.res = "Ok"
          /\ Len(default.vec) = M
          /\ \A k \in 1..M : default.vec[k] = 0
          /\ M = 0 => default.vec = <<>>
    /\ last.op = "default" =>
          /\ alive /\ last.res = "Ok"
          /\ Len(vec) = M
          /\ \A k \in 1..Len(vec) : vec[k] = 0
C17_Witness ==
    Idle /\ last.op = "default" /\ M = 2 /\ vec = <<0, 0>>

\* The call returned normally with self at least as long as before and the
\* elements of before, in their order, at the front.
GrowsKeeping(o, before) ==
    /\ o.res = "Ok"
    /\ Len(o.vec) >= Len(before)
    /\ SubSeq(o.vec, 1, Len(before)) = before

\* C18: push, insert (index <= length), append, extend_from_slice,
\* extend_from_within and extend never fail for a length reason in any
\* reachable state, never decrease the length and keep the elements present
\* before in their relative order; append also leaves the source empty.
C18_GrowingOperations ==
    Ready =>
        /\ \A x \in Val :
            /\ GrowsKeeping(push(vec, x), vec)
            /\ \A i \in 0..Len(vec) :
                LET o == insert(vec, i, x)
                IN  /\ o.res = "Ok"
                    /\ Len(o.vec) = Len(vec) + 1
                    /\ o.vec[i + 1] = x
                    /\ SubSeq(o.vec, 1, i) \o SubSeq(o.vec, i + 2, Len(o.vec)) = vec
        /\ \A other \in Items :
            /\ GrowsKeeping(append(vec, other), vec)
            /\ append(vec, other).ret = <<>>
            /\ GrowsKeeping(extend_from_slice(vec, other), vec)
            /\ GrowsKeeping(extend(vec, other), vec)
        /\ \A r \in Ranges :
            LET o == extend_from_within(vec, r)
            IN  /\ o.res # "Err"
                /\ Len(o.vec) >= Len(vec)
                /\ o.res = "Ok" => GrowsKeeping(o, vec)
                /\ (WellFormed(r, Len(vec)) /\ StartOf(r) <= UsizeMax) => o.res = "Ok"
C18_Witness ==
    Idle /\ M = 2 /\ last.op = "append" /\ last.res = "Ok" /\ last.ret = <<>>
         /\ vec = <<0, 0, 1>>

\* C19: range_len(range, max) has no failure mode: for every kind of start
\* and end bound and every max it returns end' - start' saturated at zero,
\* where an inclusive end (or exclusive start) is advanced by a saturating
\* + 1 and an unbounded end is max; and for every range slice_range accepts
\* for the bound max (start <= end <= max) it returns exactly end - start of
\* the range slice_range returns.
C19_RangeLen ==
    /\ probe.fn = "range_len" =>
          LET start == Min(StartOf(probe.range), UsizeMax)
              end == Min(EndOf(probe.range, probe.max), UsizeMax)
              accepted == slice_range(probe.range, probe.max)
          IN  /\ probe.out \in 0..UsizeMax
              /\ probe.out = IF end >= start THEN end - start ELSE 0
              /\ ~accepted.panic => probe.out = accepted.end - accepted.start
    /\ probe.fn = "slice_range" =>
          /\ ~probe.out.panic <=> WellFormed(probe.range, probe.max)
          /\ ~probe.out.panic =>
                /\ probe.out.start = StartOf(probe.range)
                /\ probe.out.end = EndOf(probe.range, probe.max)
                /\ range_len(probe.range, probe.max) = probe.out.end - probe.out.start
C19_Witness ==
    /\ probe.fn = "range_len"
    /\ probe.range = [start |-> Excluded(0), end |-> Included(UsizeMax)]
    /\ probe.max = MaxLen
    /\ probe.out = UsizeMax - 1

\* C20: the prospective-length arithmetic of drain (length - removed) and
\* splice (length + inserted - removed) never underflows or overflows a
\* usize: in every container state and for every range (the computation is
\* the first thing both do), the count range_len returns is at most the
\* length, respectively the length plus the inserted count.
C20_ProspectiveLengthFits ==
    Ready =>
        \A r \in Ranges :
            LET removed == range_len(r, Len(vec))
            IN  /\ removed <= Len(vec)
                /\ ~overflows(Len(vec) - removed)
                /\ \A items \in Items :
                      /\ ~overflows(Len(vec) + Len(items))
                      /\ removed <= Len(vec) + Len(items)

=============================================================================
